---- MODULE Spec2Model ----
(***************************************************************************)
(* Regions of interest of cloudviz/roi.py: RectangularROI, CircularROI and *)
(* PolygonalROI, the subclass MplPolygonalROI, and the four selection      *)
(* tools MplBoxTool, MplCircleTool, MplPolygonTool and MplLassoTool.  One  *)
(* behaviour follows one object (kind says of which class): a region       *)
(* through any sequence of calls of its public methods, a tool through any *)
(* sequence of mouse events of its canvas.                                 *)
(*                                                                         *)
(* Numbers.  Coordinates, radii and thresholds are IEEE doubles.  The      *)
(* model draws them from the dyadic rationals k/4 with k a small integer   *)
(* and stores the integer k: 4 is the number 1.0, 2 is 0.5, 1 is 0.25.     *)
(* Geometry (bounds, centers, radii, vertices, thresholds) lies on the     *)
(* even k, samples on all k, so that samples fall strictly between         *)
(* neighbouring geometry values as well as on them.  Sums, differences,    *)
(* products and powers of such values are exact in binary floating point,  *)
(* and every comparison of the code is homogeneous in the unit, so integer *)
(* arithmetic on k computes what the code computes.  The one inexact       *)
(* operation, the division in PolygonalROI.contains, is modelled by        *)
(* LtQuotient below.                                                       *)
(***************************************************************************)
EXTENDS Integers, Sequences, FiniteSets

\* ---- bounds of the model ------------------------------------------------
\* geometry arguments range over the even numbers 0, 2, .., 2 * MaxCoord
MaxCoord == 2
\* a polygon holds at most MaxVerts vertices
MaxVerts == 3
\* sample coordinates range over 0..MaxSample
MaxSample == 4
\* thresholds range over the even numbers 0, 2, .., 2 * MaxThresh, or are absent
MaxThresh == 1

Coord == {2 * k : k \in 0..MaxCoord}
SampleCoord == 0..MaxSample

\* ---- Python values ------------------------------------------------------
\* None, and a present number v as Some(v): `o is not None` is o # None
None == <<>>
Some(v) == <<v>>
Val(o) == o[1]
Thresh == {None} \cup {Some(2 * t) : t \in 0..MaxThresh}

VARIABLES
    kind,                       \* class of the object: "rect", "circle", "poly", "mplpoly",
                                \* "boxtool", "circletool", "polygontool", "lassotool"
    xmin, xmax, ymin, ymax,     \* RectangularROI attributes
    xc, yc, radius,             \* CircularROI attributes
    vx, vy,                     \* PolygonalROI attributes
    _active, _xi, _yi,          \* attributes of the Mpl*Tool classes
    mask,                       \* self._subset.mask of a tool
    call,                       \* the most recent call: method, arguments, state before
    ret,                        \* what the most recent call returned (or that it raised)
    geometry_set,               \* history: geometry assigned since creation or the last reset
    presses,                    \* history: in-axes button-1 presses since creation or the last finalization
    moved                       \* history: an in-axes motion event since the last in-axes press

vars == <<kind, xmin, xmax, ymin, ymax, xc, yc, radius, vx, vy, _active, _xi, _yi, mask,
          call, ret, geometry_set, presses, moved>>
rect == <<xmin, xmax, ymin, ymax>>
circle == <<xc, yc, radius>>
poly == <<vx, vy>>
tool == <<_active, _xi, _yi, mask, presses, moved>>

\* ---- return values ------------------------------------------------------
\* a method that returns nothing
NoValue == [tag |-> "none", dtype |-> "", vals |-> <<>>]
\* an exception propagating to the caller
Raised == [tag |-> "raise", dtype |-> "", vals |-> <<>>]
\* a numpy array: bool arrays hold 0 (False) and 1 (True)
Array(dtype, vals) == [tag |-> "array", dtype |-> dtype, vals |-> vals]

\* coordinate inputs of contains: x and y arrays of equal length, drawn as
\* one sample (a, b) or the two samples (a, a + 1), (a + 1, a)
SampleInputs ==
    {[x |-> <<a>>, y |-> <<b>>] : a \in SampleCoord, b \in SampleCoord}
    \cup {[x |-> <<a, a + 1>>, y |-> <<a + 1, a>>] : a \in (SampleCoord \ {MaxSample})}

\* ---- RectangularROI -----------------------------------------------------
RectangularROI_init ==
    /\ xmin = None /\ xmax = None /\ ymin = None /\ ymax = None

RectangularROI_defined == xmin # None

\* variant: the lower x bound not strict (x >= xmin)
RectangularROI_inside_closed(x, y) ==
    /\ x >= Val(xmin) /\ x < Val(xmax)
    /\ y > Val(ymin) /\ y < Val(ymax)

\* variant: y compared with xmax (y < xmax)
RectangularROI_inside_mixed(x, y) ==
    /\ x > Val(xmin) /\ x < Val(xmax)
    /\ y > Val(ymin) /\ y < Val(xmax)

\* one element of (x > xmin) & (x < xmax) & (y > ymin) & (y < ymax)
RectangularROI_inside(x, y) ==
    /\ x > Val(xmin) /\ x < Val(xmax)
    /\ y > Val(ymin) /\ y < Val(ymax)

\* Comparing an array with None: Python 2 orders None below every number
\* (x > None is all True, x < None all False, the mask all False); Python 3
\* raises TypeError.
RectangularROI_contains_result(x, y) ==
    IF xmin # None /\ xmax # None /\ ymin # None /\ ymax # None
    THEN {Array("bool", [i \in 1..Len(x) |->
                            IF RectangularROI_inside(x[i], y[i]) THEN 1 ELSE 0])}
    ELSE {Raised, Array("bool", [i \in 1..Len(x) |-> 0])}

RectangularROI_contains(x, y) ==
    /\ kind = "rect"
    /\ ret' \in RectangularROI_contains_result(x, y)
    /\ call' = [op |-> "contains", x |-> x, y |-> y, x_out |-> x, y_out |-> y,
                prev |-> call.op]
    /\ UNCHANGED <<kind, tool, rect, circle, poly, geometry_set>>

RectangularROI_update_limits(a, b, c, d) ==
    /\ kind = "rect"
    /\ xmin' = Some(a)
    /\ xmax' = Some(c)
    /\ ymin' = Some(b)
    /\ ymax' = Some(d)
    /\ call' = [op |-> "update_limits"]
    /\ ret' = NoValue
    /\ geometry_set' = TRUE
    /\ UNCHANGED <<kind, tool, circle, poly>>

\* variant: ymax not cleared
RectangularROI_reset_partial ==
    /\ kind = "rect"
    /\ xmin' = None
    /\ xmax' = None
    /\ ymin' = None
    /\ call' = [op |-> "reset", prev |-> call.op]
    /\ ret' = NoValue
    /\ geometry_set' = FALSE
    /\ UNCHANGED <<kind, tool, ymax, circle, poly>>

RectangularROI_reset ==
    /\ kind = "rect"
    /\ xmin' = None
    /\ xmax' = None
    /\ ymin' = None
    /\ ymax' = None
    /\ call' = [op |-> "reset", prev |-> call.op]
    /\ ret' = NoValue
    /\ geometry_set' = FALSE
    /\ UNCHANGED <<kind, tool, circle, poly>>

\* ---- CircularROI --------------------------------------------------------
CircularROI_init ==
    /\ xc = None /\ yc = None /\ radius = 0

CircularROI_defined == xc # None

\* variant: the comparison not strict (<=)
CircularROI_inside_closed(x, y) ==
    (x - Val(xc)) * (x - Val(xc)) + (y - Val(yc)) * (y - Val(yc)) <= radius * radius

\* one element of (x - xc) ** 2 + (y - yc) ** 2 < radius ** 2
CircularROI_inside(x, y) ==
    (x - Val(xc)) * (x - Val(xc)) + (y - Val(yc)) * (y - Val(yc)) < radius * radius

\* array - None raises TypeError (Python 2 and 3 alike)
CircularROI_contains_result(x, y) ==
    IF xc # None /\ yc # None
    THEN Array("bool", [i \in 1..Len(x) |->
                           IF CircularROI_inside(x[i], y[i]) THEN 1 ELSE 0])
    ELSE Raised

CircularROI_contains(x, y) ==
    /\ kind = "circle"
    /\ ret' = CircularROI_contains_result(x, y)
    /\ call' = [op |-> "contains", x |-> x, y |-> y, x_out |-> x, y_out |-> y,
                prev |-> call.op]
    /\ UNCHANGED <<kind, tool, rect, circle, poly, geometry_set>>

\* variant: the radius cleared with the center
CircularROI_set_center_zeroing(x, y) ==
    /\ kind = "circle"
    /\ xc' = Some(x)
    /\ yc' = Some(y)
    /\ radius' = 0
    /\ call' = [op |-> "set_center", x |-> x, y |-> y, radius0 |-> radius]
    /\ ret' = NoValue
    /\ geometry_set' = TRUE
    /\ UNCHANGED <<kind, tool, rect, poly>>

CircularROI_set_center(x, y) ==
    /\ kind = "circle"
    /\ xc' = Some(x)
    /\ yc' = Some(y)
    /\ call' = [op |-> "set_center", x |-> x, y |-> y, radius0 |-> radius]
    /\ ret' = NoValue
    /\ geometry_set' = TRUE
    /\ UNCHANGED <<kind, tool, rect, radius, poly>>

CircularROI_set_radius(r) ==
    /\ kind = "circle"
    /\ radius' = r
    /\ call' = [op |-> "set_radius", radius |-> r, xc0 |-> xc, yc0 |-> yc]
    /\ ret' = NoValue
    /\ UNCHANGED <<kind, tool, rect, xc, yc, poly, geometry_set>>

\* variant: the radius not cleared
CircularROI_reset_center ==
    /\ kind = "circle"
    /\ xc' = None
    /\ yc' = None
    /\ call' = [op |-> "reset", prev |-> call.op]
    /\ ret' = NoValue
    /\ geometry_set' = FALSE
    /\ UNCHANGED <<kind, tool, rect, radius, poly>>

CircularROI_reset ==
    /\ kind = "circle"
    /\ xc' = None
    /\ yc' = None
    /\ radius' = 0
    /\ call' = [op |-> "reset", prev |-> call.op]
    /\ ret' = NoValue
    /\ geometry_set' = FALSE
    /\ UNCHANGED <<kind, tool, rect, poly>>

\* ---- PolygonalROI -------------------------------------------------------
PolygonalROI_init ==
    /\ vx = <<>> /\ vy = <<>>

PolygonalROI_defined == Len(vx) > 0

\* variant: np.ones in place of np.zeros
np_ones(n) == [k \in 1..n |-> 1]

\* np.zeros(shape, dtype=int)
np_zeros(n) == [k \in 1..n |-> 0]

\* np.roll(a, 1): element i moves to i + 1, the last one to the front
np_roll(a) == [i \in 1..Len(a) |-> a[IF i = 1 THEN Len(a) ELSE i - 1]]

\* x < num / den + off in IEEE arithmetic.  For den # 0 the quotient of the
\* small dyadic operands lies either exactly on x - off or further from it
\* than any rounding error, so the comparison is the exact one,
\* cross-multiplied.  For den = 0 (np.seterr(all='ignore')) the quotient is
\* +inf (num > 0), -inf (num < 0) or nan (num = 0), and only x < +inf holds.
LtQuotient(x, num, den, off) ==
    IF den > 0 THEN (x - off) * den < num
    ELSE IF den < 0 THEN (x - off) * den > num
    ELSE num > 0

\* variant: floating-point errors raise FloatingPointError
np_seterr_raise == "raise"

\* np.seterr(all='ignore'): division by zero and invalid operations give
\* inf and nan without a warning or an exception
np_seterr == "ignore"

\* variant: | in place of &
PolygonalROI_edge_term_or(xi_i, xj_i, yi_i, yj_i, x, y) ==
    \/ (yi_i > y) # (yj_i > y)
    \/ LtQuotient(x, (xj_i - xi_i) * (y - yi_i), yj_i - yi_i, xi_i)

\* variant: the endpoint tests not strict (>=)
PolygonalROI_edge_term_ge(xi_i, xj_i, yi_i, yj_i, x, y) ==
    /\ (yi_i >= y) # (yj_i >= y)
    /\ LtQuotient(x, (xj_i - xi_i) * (y - yi_i), yj_i - yi_i, xi_i)

\* one element of the term added to result for edge i:
\* ((yi[i] > y) != (yj[i] > y)) & (x < (xj[i] - xi[i]) * (y - yi[i]) / (yj[i] - yi[i]) + xi[i])
PolygonalROI_edge_term(xi_i, xj_i, yi_i, yj_i, x, y) ==
    /\ (yi_i > y) # (yj_i > y)
    /\ LtQuotient(x, (xj_i - xi_i) * (y - yi_i), yj_i - yi_i, xi_i)

\* result after the first n passes of `for i in range(len(xi))`
RECURSIVE PolygonalROI_loop(_, _, _, _, _, _, _)
PolygonalROI_loop(xi, xj, yi, yj, x, y, n) ==
    IF n = 0 THEN np_zeros(Len(x))
    ELSE LET result == PolygonalROI_loop(xi, xj, yi, yj, x, y, n - 1)
         IN  [k \in 1..Len(x) |->
                 result[k] + IF PolygonalROI_edge_term(xi[n], xj[n], yi[n], yj[n], x[k], y[k])
                             THEN 1 ELSE 0]

\* contains on the vertex lists pvx, pvy; the division of the sample array by
\* yj[i] - yi[i] = 0 is a floating-point error in every element
PolygonalROI_contains_result(pvx, pvy, x, y) ==
    IF Len(pvx) = 0
    THEN Array("int", np_zeros(Len(x)))
    ELSE IF /\ np_seterr = "raise"
            /\ Len(x) > 0
            /\ \E i \in 1..Len(pvy) : np_roll(pvy)[i] = pvy[i]
    THEN Raised
    ELSE LET result == PolygonalROI_loop(pvx, np_roll(pvx), pvy, np_roll(pvy), x, y, Len(pvx))
         IN  Array("bool", [k \in 1..Len(x) |-> IF result[k] % 2 = 1 THEN 1 ELSE 0])

\* variant: the vertex lists rolled in place
PolygonalROI_contains_rolling(x, y) ==
    /\ kind = "poly"
    /\ ret' = PolygonalROI_contains_result(vx, vy, x, y)
    /\ vx' = np_roll(vx)
    /\ vy' = np_roll(vy)
    /\ call' = [op |-> "contains", x |-> x, y |-> y, x_out |-> x, y_out |-> y]
    /\ UNCHANGED <<kind, tool, rect, circle, geometry_set>>

\* x and y are read only (x_out, y_out: the arrays after the call): the
\* comparisons and the arithmetic build new arrays, += acts on result
PolygonalROI_contains(x, y) ==
    /\ kind = "poly"
    /\ ret' = PolygonalROI_contains_result(vx, vy, x, y)
    /\ call' = [op |-> "contains", x |-> x, y |-> y, x_out |-> x, y_out |-> y]
    /\ UNCHANGED <<kind, tool, rect, circle, poly, geometry_set>>

\* variant: insert(0, ..) in place of append
PolygonalROI_add_point_front(x, y) ==
    /\ kind = "poly"
    /\ Len(vx) < MaxVerts
    /\ vx' = <<x>> \o vx
    /\ vy' = <<y>> \o vy
    /\ call' = [op |-> "add_point", x |-> x, y |-> y, vx0 |-> vx, vy0 |-> vy]
    /\ ret' = NoValue
    /\ geometry_set' = TRUE
    /\ UNCHANGED <<kind, tool, rect, circle>>

PolygonalROI_add_point(x, y) ==
    /\ kind = "poly"
    /\ Len(vx) < MaxVerts
    /\ vx' = Append(vx, x)
    /\ vy' = Append(vy, y)
    /\ call' = [op |-> "add_point", x |-> x, y |-> y, vx0 |-> vx, vy0 |-> vy]
    /\ ret' = NoValue
    /\ geometry_set' = TRUE
    /\ UNCHANGED <<kind, tool, rect, circle>>

PolygonalROI_reset ==
    /\ kind = "poly"
    /\ vx' = <<>>
    /\ vy' = <<>>
    /\ call' = [op |-> "reset", prev |-> call.op]
    /\ ret' = NoValue
    /\ geometry_set' = FALSE
    /\ UNCHANGED <<kind, tool, rect, circle>>

\* variant: index 0 in place of index -1
PolygonalROI_replace_first_point_result(pv, v) ==
    IF Len(pv) > 0 THEN [pv EXCEPT ![1] = v] ELSE pv

\* self.vx[-1] = x; self.vy[-1] = y, under `if len(self.vx) > 0`
PolygonalROI_replace_last_point_result(pv, v) ==
    IF Len(pv) > 0 THEN [pv EXCEPT ![Len(pv)] = v] ELSE pv

PolygonalROI_replace_last_point(x, y) ==
    /\ kind = "poly"
    /\ vx' = PolygonalROI_replace_last_point_result(vx, x)
    /\ vy' = PolygonalROI_replace_last_point_result(vy, y)
    /\ call' = [op |-> "replace_last_point", x |-> x, y |-> y, vx0 |-> vx, vy0 |-> vy]
    /\ ret' = NoValue
    /\ UNCHANGED <<kind, tool, rect, circle, geometry_set>>

\* dist = [(x - a) ** 2 + (y - b) ** 2 for a, b in zip(self.vx, self.vy)]
PolygonalROI_dist(pvx, pvy, x, y) ==
    [i \in 1..Len(pvx) |-> (x - pvx[i]) * (x - pvx[i]) + (y - pvy[i]) * (y - pvy[i])]

\* min(inds, key=lambda x: dist[x]): the first index of a smallest element
\* (indices are 1-based here)
\* variant: the last index of a smallest element
RECURSIVE min_key_last(_, _)
min_key_last(dist, n) ==
    IF n = 1 THEN 1
    ELSE LET best == min_key_last(dist, n - 1)
         IN  IF dist[n] <= dist[best] THEN n ELSE best

RECURSIVE min_key(_, _)
min_key(dist, n) ==
    IF n = 1 THEN 1
    ELSE LET best == min_key(dist, n - 1)
         IN  IF dist[n] < dist[best] THEN n ELSE best

\* [v[i] for i in inds if i != near]
without(v, near) ==
    [i \in 1..(Len(v) - 1) |-> IF i < near THEN v[i] ELSE v[i + 1]]

\* thresh is not None and dist[near] > (thresh ** 2)
PolygonalROI_beyond_thresh(d, thresh) ==
    thresh # None /\ d > Val(thresh) * Val(thresh)

\* the vertex list pv after remove_point(x, y, thresh) on (pvx, pvy)
PolygonalROI_remove_point_result(pv, pvx, pvy, x, y, thresh) ==
    IF Len(pvx) = 0 THEN pv
    ELSE LET dist == PolygonalROI_dist(pvx, pvy, x, y)
             near == min_key(dist, Len(dist))
         IN  IF PolygonalROI_beyond_thresh(dist[near], thresh) THEN pv
             ELSE without(pv, near)

PolygonalROI_remove_point(x, y, thresh) ==
    /\ kind = "poly"
    /\ vx' = PolygonalROI_remove_point_result(vx, vx, vy, x, y, thresh)
    /\ vy' = PolygonalROI_remove_point_result(vy, vx, vy, x, y, thresh)
    /\ call' = [op |-> "remove_point", x |-> x, y |-> y, thresh |-> thresh,
                vx0 |-> vx, vy0 |-> vy]
    /\ ret' = NoValue
    /\ UNCHANGED <<kind, tool, rect, circle, geometry_set>>

\* ---- MplPolygonalROI -------------------------------------------------------
\* The subclass adds the patch that draws the polygon; _sync_patch() writes
\* only to the patch and the canvas, which are not part of the state here.
MplPolygonalROI_init == PolygonalROI_init

\* inherited from PolygonalROI
MplPolygonalROI_contains(x, y) ==
    /\ kind = "mplpoly"
    /\ ret' = PolygonalROI_contains_result(vx, vy, x, y)
    /\ call' = [op |-> "contains", x |-> x, y |-> y, x_out |-> x, y_out |-> y]
    /\ UNCHANGED <<kind, tool, rect, circle, poly, geometry_set>>

\* PolygonalROI.add_point(self, x, y); self._sync_patch()
MplPolygonalROI_add_point(x, y) ==
    /\ kind = "mplpoly"
    /\ Len(vx) < MaxVerts
    /\ vx' = Append(vx, x)
    /\ vy' = Append(vy, y)
    /\ call' = [op |-> "add_point", x |-> x, y |-> y, vx0 |-> vx, vy0 |-> vy]
    /\ ret' = NoValue
    /\ geometry_set' = TRUE
    /\ UNCHANGED <<kind, tool, rect, circle>>

\* PolygonalROI.reset(self); self._sync_patch()
MplPolygonalROI_reset ==
    /\ kind = "mplpoly"
    /\ vx' = <<>>
    /\ vy' = <<>>
    /\ call' = [op |-> "reset", prev |-> call.op]
    /\ ret' = NoValue
    /\ geometry_set' = FALSE
    /\ UNCHANGED <<kind, tool, rect, circle>>

\* PolygonalROI.replace_last_point(self, x, y); self._sync_patch()
MplPolygonalROI_replace_last_point(x, y) ==
    /\ kind = "mplpoly"
    /\ vx' = PolygonalROI_replace_last_point_result(vx, x)
    /\ vy' = PolygonalROI_replace_last_point_result(vy, y)
    /\ call' = [op |-> "replace_last_point", x |-> x, y |-> y, vx0 |-> vx, vy0 |-> vy]
    /\ ret' = NoValue
    /\ UNCHANGED <<kind, tool, rect, circle, geometry_set>>

\* PolygonalROI.reset(self, x, y, thresh=None): reset takes self only, so the
\* call raises TypeError before the body of reset runs; _sync_patch() is not
\* reached
MplPolygonalROI_remove_point(x, y, thresh) ==
    /\ kind = "mplpoly"
    /\ ret' = Raised
    /\ call' = [op |-> "remove_point", x |-> x, y |-> y, thresh |-> thresh,
                vx0 |-> vx, vy0 |-> vy]
    /\ UNCHANGED <<kind, tool, rect, circle, poly, geometry_set>>

\* ---- mouse events ---------------------------------------------------------
\* event.button
Buttons == {1, 2, 3}

\* a mouse event of the canvas: inside the axes, with data coordinates, or
\* outside, where xdata and ydata are None
Events ==
    {[inaxes |-> TRUE, button |-> b, xdata |-> Some(x), ydata |-> Some(y)] :
        b \in Buttons, x \in Coord, y \in Coord}
    \cup {[inaxes |-> FALSE, button |-> b, xdata |-> None, ydata |-> None] : b \in Buttons}

\* the events as a handler sees them that reads inaxes and button but not
\* xdata and ydata: one position inside the axes stands for all
EventsAnywhere == {e \in Events : e.inaxes => (e.xdata = Some(0) /\ e.ydata = Some(0))}

\* the events as a handler sees them that reads at most inaxes: one button
\* stands for all
EventsByAxes == {e \in EventsAnywhere : e.button = 1}

\* min(a, b), max(a, b) of two numbers
min(a, b) == IF b < a THEN b ELSE a
max(a, b) == IF b > a THEN b ELSE a

\* ---- MplBoxTool ------------------------------------------------------------
\* MplRectangularROI adds the patch that draws the rectangle; _sync_patch()
\* writes only to the patch and the canvas, which are not part of the state.
\* self._xi and self._yi do not exist before the first press: None here.
MplBoxTool_init ==
    /\ RectangularROI_init
    /\ _active = FALSE /\ _xi = None /\ _yi = None

\* button_press_event: reset(), update_limits(xdata, ydata, xdata, ydata)
MplBoxTool_start_selection(event) ==
    /\ kind = "boxtool"
    /\ IF ~event.inaxes
       THEN UNCHANGED <<rect, _active, _xi, _yi, geometry_set, moved>>
       ELSE /\ xmin' = event.xdata /\ xmax' = event.xdata
            /\ ymin' = event.ydata /\ ymax' = event.ydata
            /\ geometry_set' = TRUE
            /\ _xi' = event.xdata
            /\ _yi' = event.ydata
            /\ _active' = TRUE
            /\ moved' = FALSE
    /\ call' = [op |-> "start_selection", done |-> event.inaxes]
    /\ ret' = NoValue
    /\ UNCHANGED <<kind, circle, poly, mask, presses>>

\* variant: the press point and the event point passed unsorted
MplBoxTool_update_selection_unsorted(event) ==
    /\ kind = "boxtool"
    /\ IF ~event.inaxes \/ ~_active
       THEN UNCHANGED rect
       ELSE /\ xmin' = _xi
            /\ ymin' = _yi
            /\ xmax' = event.xdata
            /\ ymax' = event.ydata
    /\ call' = [op |-> "update_selection", done |-> (event.inaxes /\ _active)]
    /\ ret' = NoValue
    /\ moved' = (moved \/ event.inaxes)
    /\ UNCHANGED <<kind, circle, poly, _active, _xi, _yi, mask, presses, geometry_set>>

\* motion_notify_event: update_limits(min(xdata, _xi), min(ydata, _yi),
\* max(xdata, _xi), max(ydata, _yi))
MplBoxTool_update_selection(event) ==
    /\ kind = "boxtool"
    /\ IF ~event.inaxes \/ ~_active
       THEN UNCHANGED rect
       ELSE /\ xmin' = Some(min(Val(event.xdata), Val(_xi)))
            /\ ymin' = Some(min(Val(event.ydata), Val(_yi)))
            /\ xmax' = Some(max(Val(event.xdata), Val(_xi)))
            /\ ymax' = Some(max(Val(event.ydata), Val(_yi)))
    /\ call' = [op |-> "update_selection", done |-> (event.inaxes /\ _active)]
    /\ ret' = NoValue
    /\ moved' = (moved \/ event.inaxes)
    /\ UNCHANGED <<kind, circle, poly, _active, _xi, _yi, mask, presses, geometry_set>>

\* variant: reset() ahead of contains
MplBoxTool_finalize_selection_reset_first(event, x, y) ==
    /\ kind = "boxtool"
    /\ IF ~event.inaxes \/ ~_active
       THEN /\ call' = [op |-> "finalize_selection", done |-> FALSE,
                             inaxes |-> event.inaxes]
            /\ ret' = NoValue
            /\ UNCHANGED <<rect, _active, mask, geometry_set>>
       ELSE \E r \in {Raised, Array("bool", [i \in 1..Len(x) |-> 0])} :
                IF r = Raised
                THEN /\ call' = [op |-> "finalize_selection", done |-> FALSE,
                             inaxes |-> event.inaxes]
                     /\ ret' = Raised
                     /\ xmin' = None /\ xmax' = None /\ ymin' = None /\ ymax' = None
                     /\ geometry_set' = FALSE
                     /\ UNCHANGED <<_active, mask>>
                ELSE /\ call' = [op |-> "finalize_selection", done |-> TRUE,
                             inaxes |-> event.inaxes, x |-> x, y |-> y]
                     /\ ret' = NoValue
                     /\ mask' = r
                     /\ xmin' = None /\ xmax' = None /\ ymin' = None /\ ymax' = None
                     /\ geometry_set' = FALSE
                     /\ _active' = FALSE
    /\ UNCHANGED <<kind, circle, poly, _xi, _yi, presses, moved>>

\* button_release_event; x and y are the data of the subset's components.
\* An exception of contains leaves the handler before the mask is written.
MplBoxTool_finalize_selection(event, x, y) ==
    /\ kind = "boxtool"
    /\ IF ~event.inaxes \/ ~_active
       THEN /\ call' = [op |-> "finalize_selection", done |-> FALSE,
                             inaxes |-> event.inaxes]
            /\ ret' = NoValue
            /\ UNCHANGED <<rect, _active, mask, geometry_set>>
       ELSE \E r \in RectangularROI_contains_result(x, y) :
                IF r = Raised
                THEN /\ call' = [op |-> "finalize_selection", done |-> FALSE,
                             inaxes |-> event.inaxes]
                     /\ ret' = Raised
                     /\ UNCHANGED <<rect, _active, mask, geometry_set>>
                ELSE /\ call' = [op |-> "finalize_selection", done |-> TRUE,
                             inaxes |-> event.inaxes, x |-> x, y |-> y]
                     /\ ret' = NoValue
                     /\ mask' = r
                     /\ xmin' = None /\ xmax' = None /\ ymin' = None /\ ymax' = None
                     /\ geometry_set' = FALSE
                     /\ _active' = FALSE
    /\ UNCHANGED <<kind, circle, poly, _xi, _yi, presses, moved>>

\* ---- MplCircleTool ---------------------------------------------------------
\* aspect_ratio(ax) of the axes, a positive number
AspectRatios == {1, 2}

\* np.sqrt of a perfect square
np_sqrt(s) == CHOOSE r \in 0..s : r * r = s

IsSquare(s) == \E r \in 0..s : r * r = s

MplCircleTool_init ==
    /\ CircularROI_init
    /\ _active = FALSE /\ _xi = None /\ _yi = None

\* variant: set_center(xdata, ydata) alone, the radius of the gesture before
\* kept
MplCircleTool_start_selection_keeping(event) ==
    /\ kind = "circletool"
    /\ IF ~event.inaxes
       THEN UNCHANGED <<circle, _active, _xi, _yi, geometry_set, moved>>
       ELSE /\ xc' = event.xdata
            /\ yc' = event.ydata
            /\ UNCHANGED radius
            /\ geometry_set' = TRUE
            /\ _xi' = event.xdata
            /\ _yi' = event.ydata
            /\ _active' = TRUE
            /\ moved' = FALSE
    /\ call' = [op |-> "start_selection", done |-> event.inaxes]
    /\ ret' = NoValue
    /\ UNCHANGED <<kind, rect, poly, mask, presses>>

\* button_press_event: reset(), set_center(xdata, ydata), set_radius(0.)
MplCircleTool_start_selection(event) ==
    /\ kind = "circletool"
    /\ IF ~event.inaxes
       THEN UNCHANGED <<circle, _active, _xi, _yi, geometry_set, moved>>
       ELSE /\ xc' = event.xdata
            /\ yc' = event.ydata
            /\ radius' = 0
            /\ geometry_set' = TRUE
            /\ _xi' = event.xdata
            /\ _yi' = event.ydata
            /\ _active' = TRUE
            /\ moved' = FALSE
    /\ call' = [op |-> "start_selection", done |-> event.inaxes]
    /\ ret' = NoValue
    /\ UNCHANGED <<kind, rect, poly, mask, presses>>

\* squared radius of motion_notify_event: dx * dx + dy * dy
MplCircleTool_radius2(event, aspect) ==
    LET dx == Val(event.xdata) - Val(_xi)
        dy == (Val(event.ydata) - Val(_yi)) * aspect
    IN  dx * dx + dy * dy

\* motion_notify_event: set_radius(np.sqrt(dx * dx + dy * dy)).  The events
\* are those whose squared radius is a perfect square, for which np.sqrt is
\* exact.
MplCircleTool_update_selection(event, aspect) ==
    /\ kind = "circletool"
    /\ IF ~event.inaxes \/ ~_active
       THEN UNCHANGED radius
       ELSE /\ IsSquare(MplCircleTool_radius2(event, aspect))
            /\ radius' = np_sqrt(MplCircleTool_radius2(event, aspect))
    /\ call' = [op |-> "update_selection", done |-> (event.inaxes /\ _active)]
    /\ ret' = NoValue
    /\ moved' = (moved \/ event.inaxes)
    /\ UNCHANGED <<kind, rect, xc, yc, poly, _active, _xi, _yi, mask, presses, geometry_set>>

\* button_release_event
MplCircleTool_finalize_selection(event, x, y) ==
    /\ kind = "circletool"
    /\ IF ~event.inaxes \/ ~_active
       THEN /\ call' = [op |-> "finalize_selection", done |-> FALSE,
                             inaxes |-> event.inaxes]
            /\ ret' = NoValue
            /\ UNCHANGED <<circle, _active, mask, geometry_set>>
       ELSE LET r == CircularROI_contains_result(x, y)
            IN  IF r = Raised
                THEN /\ call' = [op |-> "finalize_selection", done |-> FALSE,
                             inaxes |-> event.inaxes]
                     /\ ret' = Raised
                     /\ UNCHANGED <<circle, _active, mask, geometry_set>>
                ELSE /\ call' = [op |-> "finalize_selection", done |-> TRUE,
                             inaxes |-> event.inaxes, x |-> x, y |-> y]
                     /\ ret' = NoValue
                     /\ mask' = r
                     /\ xc' = None /\ yc' = None /\ radius' = 0
                     /\ geometry_set' = FALSE
                     /\ _active' = FALSE
    /\ UNCHANGED <<kind, rect, poly, _xi, _yi, presses, moved>>

\* ---- MplPolygonTool --------------------------------------------------------
\* self.vx = [0.]; self.vy = [0.]
MplPolygonTool_placeholder == <<0>>

MplPolygonTool_init ==
    /\ vx = MplPolygonTool_placeholder
    /\ vy = MplPolygonTool_placeholder
    /\ _active = TRUE /\ _xi = None /\ _yi = None

\* add_point(xdata, ydata) on an in-axes press of button 1
MplPolygonTool_add_vertex(event) ==
    /\ kind = "polygontool"
    /\ IF ~event.inaxes \/ event.button # 1
       THEN UNCHANGED <<poly, _active, presses>>
       ELSE /\ Len(vx) < MaxVerts
            /\ vx' = Append(vx, Val(event.xdata))
            /\ vy' = Append(vy, Val(event.ydata))
            /\ _active' = TRUE
            /\ presses' = presses + 1
    /\ call' = [op |-> "add_vertex", done |-> (event.inaxes /\ event.button = 1)]
    /\ ret' = NoValue
    /\ UNCHANGED <<kind, rect, circle, _xi, _yi, mask, geometry_set, moved>>

\* variant: add_point in place of replace_last_point
MplPolygonTool_update_selection_adding(event) ==
    /\ kind = "polygontool"
    /\ IF ~event.inaxes \/ ~_active
       THEN UNCHANGED poly
       ELSE /\ Len(vx) < MaxVerts
            /\ vx' = Append(vx, Val(event.xdata))
            /\ vy' = Append(vy, Val(event.ydata))
    /\ call' = [op |-> "update_selection", done |-> (event.inaxes /\ _active)]
    /\ ret' = NoValue
    /\ UNCHANGED <<kind, rect, circle, tool, geometry_set>>

\* motion_notify_event: replace_last_point(xdata, ydata)
MplPolygonTool_update_selection(event) ==
    /\ kind = "polygontool"
    /\ IF ~event.inaxes \/ ~_active
       THEN UNCHANGED poly
       ELSE /\ vx' = PolygonalROI_replace_last_point_result(vx, Val(event.xdata))
            /\ vy' = PolygonalROI_replace_last_point_result(vy, Val(event.ydata))
    /\ call' = [op |-> "update_selection", done |-> (event.inaxes /\ _active)]
    /\ ret' = NoValue
    /\ UNCHANGED <<kind, rect, circle, tool, geometry_set>>

\* contains, reset() and the placeholder vertex on an in-axes press of button 3
MplPolygonTool_finalize_selection(event, x, y) ==
    /\ kind = "polygontool"
    /\ IF ~event.inaxes \/ ~_active \/ event.button # 3
       THEN /\ call' = [op |-> "finalize_selection", done |-> FALSE]
            /\ ret' = NoValue
            /\ UNCHANGED <<poly, _active, mask, presses>>
       ELSE LET r == PolygonalROI_contains_result(vx, vy, x, y)
            IN  IF r = Raised
                THEN /\ call' = [op |-> "finalize_selection", done |-> FALSE]
                     /\ ret' = Raised
                     /\ UNCHANGED <<poly, _active, mask, presses>>
                ELSE /\ call' = [op |-> "finalize_selection", done |-> TRUE, x |-> x, y |-> y]
                     /\ ret' = NoValue
                     /\ mask' = r
                     /\ vx' = MplPolygonTool_placeholder
                     /\ vy' = MplPolygonTool_placeholder
                     /\ _active' = TRUE
                     /\ presses' = 0
    /\ UNCHANGED <<kind, rect, circle, _xi, _yi, geometry_set, moved>>

\* button_press_event runs add_vertex, then finalize_selection.  add_vertex
\* acts on button 1 only, where finalize_selection returns at once; for any
\* other event add_vertex returns at once and finalize_selection decides.
MplPolygonTool_button_press_event(event, x, y) ==
    IF event.inaxes /\ event.button = 1
    THEN MplPolygonTool_add_vertex(event)
    ELSE MplPolygonTool_finalize_selection(event, x, y)

\* ---- MplLassoTool ----------------------------------------------------------
MplLassoTool_init ==
    /\ MplPolygonalROI_init
    /\ _active = FALSE /\ _xi = None /\ _yi = None

\* button_press_event: reset(), add_point(xdata, ydata)
MplLassoTool_start_selection(event) ==
    /\ kind = "lassotool"
    /\ IF ~event.inaxes
       THEN UNCHANGED <<poly, _active, geometry_set>>
       ELSE /\ vx' = <<Val(event.xdata)>>
            /\ vy' = <<Val(event.ydata)>>
            /\ geometry_set' = TRUE
            /\ _active' = TRUE
    /\ call' = [op |-> "start_selection", done |-> event.inaxes]
    /\ ret' = NoValue
    /\ UNCHANGED <<kind, rect, circle, _xi, _yi, mask, presses, moved>>

\* motion_notify_event: add_point(xdata, ydata)
MplLassoTool_update_selection(event) ==
    /\ kind = "lassotool"
    /\ IF ~event.inaxes \/ ~_active
       THEN UNCHANGED poly
       ELSE /\ Len(vx) < MaxVerts
            /\ vx' = Append(vx, Val(event.xdata))
            /\ vy' = Append(vy, Val(event.ydata))
    /\ call' = [op |-> "update_selection", done |-> (event.inaxes /\ _active)]
    /\ ret' = NoValue
    /\ UNCHANGED <<kind, rect, circle, tool, geometry_set>>

\* variant: self._active = False left out
MplLassoTool_finalize_selection_active(event, x, y) ==
    /\ kind = "lassotool"
    /\ IF ~_active
       THEN /\ call' = [op |-> "finalize_selection", done |-> FALSE]
            /\ ret' = NoValue
            /\ UNCHANGED <<poly, mask, geometry_set>>
       ELSE LET r == PolygonalROI_contains_result(vx, vy, x, y)
            IN  /\ call' = [op |-> "finalize_selection", done |-> TRUE, x |-> x, y |-> y]
                /\ ret' = NoValue
                /\ mask' = r
                /\ vx' = <<>>
                /\ vy' = <<>>
                /\ geometry_set' = FALSE
    /\ UNCHANGED <<kind, rect, circle, _active, _xi, _yi, presses, moved>>

\* button_release_event, inside or outside the axes; self._polygon is the
\* patch made by the constructor and never None
MplLassoTool_finalize_selection(event, x, y) ==
    /\ kind = "lassotool"
    /\ IF ~_active
       THEN /\ call' = [op |-> "finalize_selection", done |-> FALSE]
            /\ ret' = NoValue
            /\ UNCHANGED <<poly, _active, mask, geometry_set>>
       ELSE LET r == PolygonalROI_contains_result(vx, vy, x, y)
            IN  IF r = Raised
                THEN /\ call' = [op |-> "finalize_selection", done |-> FALSE]
                     /\ ret' = Raised
                     /\ UNCHANGED <<poly, _active, mask, geometry_set>>
                ELSE /\ call' = [op |-> "finalize_selection", done |-> TRUE, x |-> x, y |-> y]
                     /\ ret' = NoValue
                     /\ mask' = r
                     /\ vx' = <<>>
                     /\ vy' = <<>>
                     /\ geometry_set' = FALSE
                     /\ _active' = FALSE
    /\ UNCHANGED <<kind, rect, circle, _xi, _yi, presses, moved>>

\* ---- specifications ------------------------------------------------------
\* the classes below the tools have no tool attributes and no subset
NoTool_init ==
    /\ _active = FALSE /\ _xi = None /\ _yi = None
    /\ mask = NoValue
    /\ presses = 0 /\ moved = FALSE

Kinds == {"rect", "circle", "poly"}

\* the object after its constructor
Init ==
    /\ kind \in Kinds
    /\ RectangularROI_init
    /\ CircularROI_init
    /\ PolygonalROI_init
    /\ NoTool_init
    /\ call = [op |-> "init"]
    /\ ret = NoValue
    /\ geometry_set = FALSE

NextRect ==
    \/ \E s \in SampleInputs : RectangularROI_contains(s.x, s.y)
    \/ \E a, b, c, d \in Coord : RectangularROI_update_limits(a, b, c, d)
    \/ RectangularROI_reset

NextCircle ==
    \/ \E s \in SampleInputs : CircularROI_contains(s.x, s.y)
    \/ \E x, y \in Coord : CircularROI_set_center(x, y)
    \/ \E r \in Coord : CircularROI_set_radius(r)
    \/ CircularROI_reset

NextPoly ==
    \/ \E s \in SampleInputs : PolygonalROI_contains(s.x, s.y)
    \/ \E x, y \in Coord : PolygonalROI_add_point(x, y)
    \/ PolygonalROI_reset
    \/ \E x, y \in Coord : PolygonalROI_replace_last_point(x, y)
    \/ \E x, y \in Coord, t \in Thresh : PolygonalROI_remove_point(x, y, t)

Next == NextRect \/ NextCircle \/ NextPoly

\* an object of any of the three classes
Spec == Init /\ [][Next]_vars

\* a RectangularROI, a CircularROI, a PolygonalROI
InitRect == kind = "rect" /\ Init
InitCircle == kind = "circle" /\ Init
InitPoly == kind = "poly" /\ Init

SpecRect == InitRect /\ [][NextRect]_vars
SpecCircle == InitCircle /\ [][NextCircle]_vars
SpecPoly == InitPoly /\ [][NextPoly]_vars

\* a MplPolygonalROI
InitMplPoly ==
    /\ kind = "mplpoly"
    /\ RectangularROI_init
    /\ CircularROI_init
    /\ MplPolygonalROI_init
    /\ NoTool_init
    /\ call = [op |-> "init"]
    /\ ret = NoValue
    /\ geometry_set = FALSE

NextMplPoly ==
    \/ \E s \in SampleInputs : MplPolygonalROI_contains(s.x, s.y)
    \/ \E x, y \in Coord : MplPolygonalROI_add_point(x, y)
    \/ MplPolygonalROI_reset
    \/ \E x, y \in Coord : MplPolygonalROI_replace_last_point(x, y)
    \/ \E x, y \in Coord, t \in Thresh : MplPolygonalROI_remove_point(x, y, t)

SpecMplPoly == InitMplPoly /\ [][NextMplPoly]_vars

\* a tool after its constructor: the subset's mask is not written yet
InitBoxTool ==
    /\ kind = "boxtool"
    /\ MplBoxTool_init /\ CircularROI_init /\ PolygonalROI_init
    /\ mask = NoValue /\ presses = 0 /\ moved = FALSE
    /\ call = [op |-> "init", done |-> FALSE]
    /\ ret = NoValue
    /\ geometry_set = FALSE

InitCircleTool ==
    /\ kind = "circletool"
    /\ RectangularROI_init /\ MplCircleTool_init /\ PolygonalROI_init
    /\ mask = NoValue /\ presses = 0 /\ moved = FALSE
    /\ call = [op |-> "init", done |-> FALSE]
    /\ ret = NoValue
    /\ geometry_set = FALSE

InitPolygonTool ==
    /\ kind = "polygontool"
    /\ RectangularROI_init /\ CircularROI_init /\ MplPolygonTool_init
    /\ mask = NoValue /\ presses = 0 /\ moved = FALSE
    /\ call = [op |-> "init", done |-> FALSE]
    /\ ret = NoValue
    /\ geometry_set = TRUE

InitLassoTool ==
    /\ kind = "lassotool"
    /\ RectangularROI_init /\ CircularROI_init /\ MplLassoTool_init
    /\ mask = NoValue /\ presses = 0 /\ moved = FALSE
    /\ call = [op |-> "init", done |-> FALSE]
    /\ ret = NoValue
    /\ geometry_set = FALSE

\* the events of the canvas, each with the handlers connected to it; s is the
\* data of the subset at the time of the event
NextBoxTool ==
    \/ \E e \in Events : MplBoxTool_start_selection(e)
    \/ \E e \in Events : MplBoxTool_update_selection(e)
    \/ \E e \in EventsByAxes, s \in SampleInputs : MplBoxTool_finalize_selection(e, s.x, s.y)

NextCircleTool ==
    \/ \E e \in Events : MplCircleTool_start_selection(e)
    \/ \E e \in Events, a \in AspectRatios : MplCircleTool_update_selection(e, a)
    \/ \E e \in EventsByAxes, s \in SampleInputs : MplCircleTool_finalize_selection(e, s.x, s.y)

\* only a press of button 3 inside the axes reads the data, and only a press
\* of button 1 inside the axes reads xdata and ydata
NextPolygonTool ==
    \/ \E e \in Events :
           /\ e.inaxes /\ e.button = 1
           /\ MplPolygonTool_button_press_event(e, <<>>, <<>>)
    \/ \E e \in EventsAnywhere, s \in SampleInputs :
           /\ e.inaxes /\ e.button = 3
           /\ MplPolygonTool_button_press_event(e, s.x, s.y)
    \/ \E e \in EventsAnywhere :
           /\ ~(e.inaxes /\ e.button \in {1, 3})
           /\ MplPolygonTool_button_press_event(e, <<>>, <<>>)
    \/ \E e \in Events : MplPolygonTool_update_selection(e)

NextLassoTool ==
    \/ \E e \in Events : MplLassoTool_start_selection(e)
    \/ \E e \in Events : MplLassoTool_update_selection(e)
    \/ \E e \in EventsByAxes, s \in SampleInputs : MplLassoTool_finalize_selection(e, s.x, s.y)

SpecBoxTool == InitBoxTool /\ [][NextBoxTool]_vars

\* a MplBoxTool or a MplCircleTool
InitBoxCircleTools == InitBoxTool \/ InitCircleTool
NextBoxCircleTools == NextBoxTool \/ NextCircleTool
SpecBoxCircleTools == InitBoxCircleTools /\ [][NextBoxCircleTools]_vars
SpecPolygonTool == InitPolygonTool /\ [][NextPolygonTool]_vars

\* a tool of any of the four classes
InitTools == InitBoxTool \/ InitCircleTool \/ InitPolygonTool \/ InitLassoTool
NextTools == NextBoxTool \/ NextCircleTool \/ NextPolygonTool \/ NextLassoTool
SpecTools == InitTools /\ [][NextTools]_vars

\* ---- claims ---------------------------------------------------------------
\* squared Euclidean distance between (x, y) and (a, b)
SqDist(x, y, a, b) == (x - a) * (x - a) + (y - b) * (y - b)

\* the vertex of (pvx, pvy) nearest to (x, y), the lowest index among ties
Nearest(pvx, pvy, x, y) ==
    CHOOSE m \in 1..Len(pvx) :
        /\ \A j \in 1..Len(pvx) :
               SqDist(x, y, pvx[m], pvy[m]) <= SqDist(x, y, pvx[j], pvy[j])
        /\ \A j \in 1..(m - 1) :
               SqDist(x, y, pvx[m], pvy[m]) < SqDist(x, y, pvx[j], pvy[j])

\* v is v0 with element m deleted and the others in their order
DeletedAt(v, v0, m) ==
    /\ Len(v) = Len(v0) - 1
    /\ \A i \in 1..(m - 1) : v[i] = v0[i]
    /\ \A i \in m..Len(v) : v[i] = v0[i + 1]

RemoveCalled == kind = "poly" /\ call.op = "remove_point"

C10_RemovedOnlyIfCloserThanThresh ==
    (RemoveCalled /\ call.thresh # None /\ Len(vx) < Len(call.vx0)) =>
        LET m == Nearest(call.vx0, call.vy0, call.x, call.y)
        IN  SqDist(call.x, call.y, call.vx0[m], call.vy0[m])
                < Val(call.thresh) * Val(call.thresh)

\* the ray from sample (x, y) crosses the edge from (xi, yi) to (xj, yj):
\* exactly one endpoint lies above y, and the point of the edge at height y
\* lies to the right of x.  The edge is not horizontal when the first
\* conjunct holds, and the second compares (x - xi) * dy with dx * (y - yi)
\* by the sign of dy = yj - yi.
Crosses(xi, yi, xj, yj, x, y) ==
    /\ ((yi > y) /\ ~(yj > y)) \/ (~(yi > y) /\ (yj > y))
    /\ IF yj > yi
       THEN (xj - xi) * (y - yi) - (x - xi) * (yj - yi) > 0
       ELSE (xj - xi) * (y - yi) - (x - xi) * (yj - yi) < 0

\* cyclic predecessor of vertex i among n vertices
Pred(i, n) == IF i = 1 THEN n ELSE i - 1

\* the edges (v[i], v[i-1]) of (pvx, pvy) that the ray from (x, y) crosses
CrossedEdges(pvx, pvy, x, y) ==
    {i \in 1..Len(pvx) :
        Crosses(pvx[i], pvy[i], pvx[Pred(i, Len(pvx))], pvy[Pred(i, Len(pvx))], x, y)}

PolyContainsCalled == kind = "poly" /\ call.op = "contains"

\* the unit square [(0,0),(1,0),(1,1),(0,1)]
UnitSquareX == <<0, 4, 4, 0>>
UnitSquareY == <<0, 0, 4, 4>>

\* C2: PolygonalROI.contains classifies a sample as inside iff the number of
\* cyclic edges (v[i], v[i-1]) its ray crosses is odd; for the unit square
\* (0.5, 0.5) is inside and (2, 2) is outside.
C2_EvenOdd ==
    /\ (PolyContainsCalled /\ Len(vx) > 0) =>
           /\ ret.tag = "array"
           /\ Len(ret.vals) = Len(call.x)
           /\ \A k \in 1..Len(call.x) :
                  (ret.vals[k] = 1) <=>
                      (Cardinality(CrossedEdges(vx, vy, call.x[k], call.y[k])) % 2 = 1)
           /\ \A k \in 1..Len(call.x) : ret.vals[k] \in {0, 1}
    /\ PolygonalROI_contains_result(UnitSquareX, UnitSquareY, <<2>>, <<2>>).vals = <<1>>
    /\ PolygonalROI_contains_result(UnitSquareX, UnitSquareY, <<8>>, <<8>>).vals = <<0>>

\* contains on the triangle (0, 0), (1, 0.5), (0, 1), whose edges are slanted,
\* has classified the sample (0.25, 0.5) inside (one crossing) and the sample
\* (0.5, 0.25), on the edge from (0, 0) to (1, 0.5), outside
C2_Witness ==
    /\ PolyContainsCalled
    /\ vx = <<0, 4, 0>> /\ vy = <<0, 2, 4>>
    /\ call.x = <<1, 2>> /\ call.y = <<2, 1>>
    /\ ret.vals = <<1, 0>>
    /\ Cardinality(CrossedEdges(vx, vy, call.x[1], call.y[1])) = 1

\* C8: PolygonalROI.contains on a polygon without vertices returns, for any
\* non-empty input, an array of the input's length that classifies every
\* sample outside, and does not raise.
C8_EmptyPolygon ==
    (PolyContainsCalled /\ Len(vx) = 0 /\ Len(call.x) > 0) =>
        /\ ret.tag = "array"
        /\ Len(ret.vals) = Len(call.x)
        /\ \A k \in 1..Len(ret.vals) : ret.vals[k] = 0

\* contains has been called with two samples on the polygon without vertices
C8_Witness ==
    /\ PolyContainsCalled
    /\ Len(vx) = 0 /\ Len(vy) = 0
    /\ Len(call.x) = 2
    /\ ret.tag = "array"

ReplaceCalled == kind = "poly" /\ call.op = "replace_last_point"

\* C7: replace_last_point(x, y) on a non-empty polygon sets the last vertex to
\* (x, y) and leaves the vertex count and every earlier vertex unchanged; on an
\* empty polygon it changes nothing and does not fail.
C7_ReplaceLast ==
    ReplaceCalled =>
        /\ ret = NoValue
        /\ Len(vx) = Len(call.vx0) /\ Len(vy) = Len(call.vy0)
        /\ Len(call.vx0) > 0 =>
               /\ vx[Len(vx)] = call.x /\ vy[Len(vy)] = call.y
               /\ \A i \in 1..(Len(vx) - 1) : vx[i] = call.vx0[i] /\ vy[i] = call.vy0[i]
        /\ Len(call.vx0) = 0 => (vx = <<>> /\ vy = <<>> /\ ~PolygonalROI_defined)

\* the last of three vertices has been replaced by a different point
C7_Witness ==
    /\ ReplaceCalled
    /\ Len(call.vx0) = 3
    /\ call.vx0[3] # call.x /\ call.vy0[3] # call.y
    /\ vx[3] = call.x /\ vy[3] = call.y

\* replace_last_point has been called on the polygon without vertices
C7_WitnessEmpty ==
    /\ ReplaceCalled
    /\ Len(call.vx0) = 0
    /\ vx = <<>>

RectContainsCalled == kind = "rect" /\ call.op = "contains"

\* the rectangle is set and xmin < xmax, ymin < ymax
NonDegenerate ==
    /\ RectangularROI_defined
    /\ Val(xmin) < Val(xmax)
    /\ Val(ymin) < Val(ymax)

StrictlyInsideRect(x, y) ==
    Val(xmin) < x /\ x < Val(xmax) /\ Val(ymin) < y /\ y < Val(ymax)

\* on one of the four edges
OnRectEdge(x, y) ==
    \/ x \in {Val(xmin), Val(xmax)} /\ Val(ymin) <= y /\ y <= Val(ymax)
    \/ y \in {Val(ymin), Val(ymax)} /\ Val(xmin) <= x /\ x <= Val(xmax)

OutsideRectBound(x, y) ==
    x < Val(xmin) \/ x > Val(xmax) \/ y < Val(ymin) \/ y > Val(ymax)

\* C3: RectangularROI.contains is true for sample i iff xmin < x[i] < xmax and
\* ymin < y[i] < ymax, all four strict: for xmin < xmax and ymin < ymax a sample
\* strictly inside is contained, a sample on an edge is not, a sample outside
\* a bound is not.
C3_RectStrict ==
    (RectContainsCalled /\ RectangularROI_defined) =>
        /\ ret.tag = "array"
        /\ Len(ret.vals) = Len(call.x)
        /\ \A k \in 1..Len(call.x) :
               /\ ret.vals[k] \in {0, 1}
               /\ (ret.vals[k] = 1) <=> StrictlyInsideRect(call.x[k], call.y[k])
               /\ NonDegenerate =>
                      /\ OnRectEdge(call.x[k], call.y[k]) => ret.vals[k] = 0
                      /\ OutsideRectBound(call.x[k], call.y[k]) => ret.vals[k] = 0

\* contains on a non-degenerate rectangle has excluded its only sample, which
\* lies on the left edge between the corners
C3_Witness ==
    /\ RectContainsCalled
    /\ NonDegenerate
    /\ Len(call.x) = 1
    /\ call.x[1] = Val(xmin)
    /\ Val(ymin) < call.y[1] /\ call.y[1] < Val(ymax)
    /\ ret.vals = <<0>>

\* contains on a non-degenerate rectangle has included a sample strictly inside
C3_WitnessInside ==
    /\ RectContainsCalled
    /\ NonDegenerate
    /\ StrictlyInsideRect(call.x[1], call.y[1])
    /\ ret.vals[1] = 1

\* C9: on a non-degenerate rectangle just set by update_limits, contains on
\* the point ((xmin + xmax) / 2, (ymin + ymax) / 2) is true.
C9_Midpoint ==
    (RectContainsCalled /\ call.prev = "update_limits" /\ NonDegenerate) =>
        \A k \in 1..Len(call.x) :
            (2 * call.x[k] = Val(xmin) + Val(xmax) /\ 2 * call.y[k] = Val(ymin) + Val(ymax))
                => (ret.tag = "array" /\ ret.vals[k] = 1)

\* contains right after update_limits(0, 0.5, 0.5, 1) on the midpoint
\* (0.25, 0.75), the only sample, has returned true
C9_Witness ==
    /\ RectContainsCalled
    /\ call.prev = "update_limits"
    /\ xmin = Some(0) /\ xmax = Some(2) /\ ymin = Some(2) /\ ymax = Some(4)
    /\ call.x = <<1>> /\ call.y = <<3>>
    /\ ret.vals = <<1>>

CircleContainsCalled == kind = "circle" /\ call.op = "contains"

\* C4: CircularROI.contains is true for sample i iff
\* (x[i] - xc)^2 + (y[i] - yc)^2 < radius^2, strictly: for radius > 0 a sample at
\* squared distance below radius^2 is contained, one at radius^2 or above is not.
C4_CircleStrict ==
    (CircleContainsCalled /\ CircularROI_defined) =>
        /\ ret.tag = "array"
        /\ Len(ret.vals) = Len(call.x)
        /\ \A k \in 1..Len(call.x) :
               LET d == SqDist(call.x[k], call.y[k], Val(xc), Val(yc))
               IN  /\ ret.vals[k] \in {0, 1}
                   /\ d < radius * radius => ret.vals[k] = 1
                   /\ d = radius * radius => ret.vals[k] = 0
                   /\ d > radius * radius => ret.vals[k] = 0

\* contains on a circle of radius 0.5 has excluded a sample exactly on the
\* circumference
C4_Witness ==
    /\ CircleContainsCalled
    /\ CircularROI_defined
    /\ radius = 2
    /\ Len(call.x) = 1
    /\ SqDist(call.x[1], call.y[1], Val(xc), Val(yc)) = radius * radius
    /\ ret.vals = <<0>>

\* contains on a circle of positive radius has included one of two samples
C4_WitnessInside ==
    /\ CircleContainsCalled
    /\ CircularROI_defined
    /\ radius > 0
    /\ ret.vals = <<1, 0>>

\* defined() of the object's class, inherited by the subclasses
Defined ==
    CASE kind \in {"rect", "boxtool"} -> RectangularROI_defined
      [] kind \in {"circle", "circletool"} -> CircularROI_defined
      [] kind \in {"poly", "mplpoly", "polygontool", "lassotool"} -> PolygonalROI_defined

\* C5: after any sequence of calls defined() is true exactly when the geometry
\* has been set since creation or the last reset: the four bounds of a
\* rectangle are set or unset together, so are the two center coordinates of a
\* circle, and vx and vy of a polygon have the same length, defined() holding
\* iff that length is not zero.
C5_DefinedAgrees ==
    /\ kind = "rect" =>
           /\ (xmin = None) = (xmax = None)
           /\ (xmin = None) = (ymin = None)
           /\ (xmin = None) = (ymax = None)
           /\ RectangularROI_defined = geometry_set
    /\ kind = "circle" =>
           /\ (xc = None) = (yc = None)
           /\ CircularROI_defined = geometry_set
    /\ kind = "poly" =>
           /\ Len(vx) = Len(vy)
           /\ PolygonalROI_defined = (Len(vy) # 0)
           /\ PolygonalROI_defined => geometry_set

\* a polygon has been emptied by remove_point of its only vertex: geometry
\* was set since the last reset, none is left, and it is not defined
C5_Witness ==
    /\ kind = "poly"
    /\ call.op = "remove_point"
    /\ Len(call.vx0) = 1
    /\ vx = <<>> /\ vy = <<>>
    /\ ~PolygonalROI_defined

\* a rectangle set by update_limits is defined
C5_WitnessRect ==
    /\ kind = "rect"
    /\ call.op = "update_limits"
    /\ RectangularROI_defined
    /\ ymax # None

geometry == <<rect, circle, poly>>

\* C6: reset() in any state leaves defined() false, a second reset() leaves
\* the state of the first, and the reset of a circle clears center and radius.
C6_ResetIdempotent ==
    [][call'.op = "reset" =>
          /\ ~Defined'
          /\ kind = "circle" => (xc' = None /\ yc' = None /\ radius' = 0)
          /\ call.op = "reset" => geometry' = geometry]_vars

\* a circle has been reset twice in a row
C6_Witness ==
    /\ kind = "circle"
    /\ call.op = "reset" /\ call.prev = "reset"
    /\ ~CircularROI_defined
    /\ radius = 0

\* C11: contains on a rectangle or a circle whose defined() is false raises
\* to the caller; it does not return a containment mask.
C11_UndefinedContainsRaises ==
    (kind \in {"rect", "circle"} /\ call.op = "contains" /\ ~Defined) =>
        ret = Raised

\* C12: contains leaves the geometry of the shape (rectangle bounds, circle
\* center and radius, polygon vertex lists with their order) and the
\* coordinate arrays it was given unchanged.
C12_ContainsPure ==
    [][call'.op = "contains" =>
          /\ geometry' = geometry
          /\ call'.x_out = call'.x /\ call'.y_out = call'.y]_vars

\* contains on a polygon of three different vertices has returned a mask
\* with a sample inside and one outside, and the vertices are in place
C12_Witness ==
    /\ PolyContainsCalled
    /\ Len(vx) = 3
    /\ vx # np_roll(vx) /\ vy # np_roll(vy)
    /\ ret.vals = <<1, 0>>
    /\ call.x_out = call.x /\ call.y_out = call.y

\* C13: a circle is defined from the set_center call on and stays defined
\* under set_radius; set_radius leaves the center and set_center the radius
\* unchanged; a defined circle of radius 0 contains no sample, its own center
\* included.
C13_CircleCenterRadius ==
    kind = "circle" =>
        /\ geometry_set => CircularROI_defined
        /\ call.op = "set_center" =>
               /\ CircularROI_defined
               /\ xc = Some(call.x) /\ yc = Some(call.y)
               /\ radius = call.radius0
        /\ call.op = "set_radius" =>
               /\ xc = call.xc0 /\ yc = call.yc0
               /\ radius = call.radius
               /\ call.xc0 # None => CircularROI_defined
        /\ (call.op = "contains" /\ CircularROI_defined /\ radius = 0) =>
               /\ ret.tag = "array"
               /\ Len(ret.vals) = Len(call.x)
               /\ \A k \in 1..Len(call.x) : ret.vals[k] = 0

\* contains on a defined circle of radius 0, right after set_radius(0), has
\* excluded the sample at the center
C13_Witness ==
    /\ CircleContainsCalled
    /\ call.prev = "set_radius"
    /\ CircularROI_defined
    /\ radius = 0
    /\ call.x = <<Val(xc)>> /\ call.y = <<Val(yc)>>
    /\ ret.vals = <<0>>

\* set_center has moved the center of a circle of positive radius
C13_WitnessCenter ==
    /\ kind = "circle"
    /\ call.op = "set_center"
    /\ call.radius0 > 0 /\ radius = call.radius0
    /\ CircularROI_defined

\* C14: add_point(x, y) appends (x, y) as the last vertex: the vertex count
\* grows by one, the vertices that were there keep their positions, and the
\* polygon is defined afterwards, also when it was empty before.
C14_AddPointAppends ==
    (kind = "poly" /\ call.op = "add_point") =>
        /\ ret = NoValue
        /\ Len(vx) = Len(call.vx0) + 1 /\ Len(vy) = Len(call.vy0) + 1
        /\ vx[Len(vx)] = call.x /\ vy[Len(vy)] = call.y
        /\ \A i \in 1..Len(call.vx0) : vx[i] = call.vx0[i] /\ vy[i] = call.vy0[i]
        /\ PolygonalROI_defined

\* a third vertex, different from the first, has been added behind two others
C14_Witness ==
    /\ kind = "poly" /\ call.op = "add_point"
    /\ Len(call.vx0) = 2 /\ Len(vx) = 3
    /\ vx[1] # call.x /\ vy[1] # call.y
    /\ vx[3] = call.x /\ vy[3] = call.y

\* the first vertex has been added to an empty polygon, which is now defined
C14_WitnessFirst ==
    /\ kind = "poly" /\ call.op = "add_point"
    /\ call.vx0 = <<>>
    /\ Len(vx) = 1
    /\ PolygonalROI_defined

\* edge i of pvy, from vertex i to its cyclic predecessor, is horizontal
Horizontal(pvy, i) == pvy[i] = pvy[Pred(i, Len(pvy))]

\* the edges that are not horizontal and that the ray from (x, y) crosses
NonHorizontalCrossed(pvx, pvy, x, y) ==
    {i \in 1..Len(pvx) :
        /\ ~Horizontal(pvy, i)
        /\ Crosses(pvx[i], pvy[i], pvx[Pred(i, Len(pvx))], pvy[Pred(i, Len(pvx))], x, y)}

\* C15: in PolygonalROI.contains a horizontal edge adds nothing to the
\* crossing count of any sample, whatever the division by its zero
\* y-difference gives; the call returns a mask and does not raise, and the
\* mask is the parity of the crossings of the other edges.
C15_HorizontalEdges ==
    (PolyContainsCalled /\ Len(vx) > 0) =>
        /\ ret.tag = "array"
        /\ \A k \in 1..Len(call.x) :
               /\ (ret.vals[k] = 1) <=>
                      (Cardinality(NonHorizontalCrossed(vx, vy, call.x[k], call.y[k])) % 2 = 1)
               /\ \A i \in 1..Len(vx) :
                      Horizontal(vy, i) =>
                          ~PolygonalROI_edge_term(vx[i], np_roll(vx)[i], vy[i], np_roll(vy)[i],
                                                  call.x[k], call.y[k])

\* contains on a triangle with one horizontal edge has classified a sample
\* inside for which the division on that edge is a positive number by zero
C15_Witness ==
    /\ PolyContainsCalled
    /\ Len(vx) = 3
    /\ Cardinality({i \in 1..3 : Horizontal(vy, i)}) = 1
    /\ \E i \in 1..3, k \in 1..Len(call.x) :
           /\ Horizontal(vy, i)
           /\ (np_roll(vx)[i] - vx[i]) * (call.y[k] - vy[i]) > 0
           /\ ret.vals[k] = 1

\* C16: remove_point(x, y, thresh) on a MplPolygonalROI returns without an
\* error and leaves the vertex lists as PolygonalROI.remove_point(x, y,
\* thresh) leaves them.
C16_MplRemoveAsBase ==
    (kind = "mplpoly" /\ call.op = "remove_point") =>
        /\ ret = NoValue
        /\ vx = PolygonalROI_remove_point_result(call.vx0, call.vx0, call.vy0,
                                                 call.x, call.y, call.thresh)
        /\ vy = PolygonalROI_remove_point_result(call.vy0, call.vx0, call.vy0,
                                                 call.x, call.y, call.thresh)

\* C17: whenever the rectangle of a MplBoxTool is defined, its bounds are
\* sorted, xmin <= xmax and ymin <= ymax, and the press point (_xi, _yi) of
\* the gesture lies within them.
C17_BoxSorted ==
    (kind = "boxtool" /\ RectangularROI_defined) =>
        /\ xmax # None /\ ymin # None /\ ymax # None
        /\ _xi # None /\ _yi # None
        /\ Val(xmin) <= Val(xmax)
        /\ Val(ymin) <= Val(ymax)
        /\ Val(xmin) <= Val(_xi) /\ Val(_xi) <= Val(xmax)
        /\ Val(ymin) <= Val(_yi) /\ Val(_yi) <= Val(ymax)

\* a motion event to the left of and above the press point has set the
\* rectangle: the press point is its lower right corner
C17_Witness ==
    /\ kind = "boxtool"
    /\ call.op = "update_selection" /\ call.done
    /\ RectangularROI_defined
    /\ Val(xmin) < Val(_xi) /\ xmax = _xi
    /\ ymin = _yi /\ Val(_yi) < Val(ymax)

\* the mask contains computes for the samples (x, y) on the geometry of the
\* tool's shape
ExpectedMask(x, y) ==
    [k \in 1..Len(x) |->
        IF CASE kind = "boxtool" -> StrictlyInsideRect(x[k], y[k])
             [] kind = "circletool" ->
                    SqDist(x[k], y[k], Val(xc), Val(yc)) < radius * radius
             [] kind \in {"polygontool", "lassotool"} ->
                    Cardinality(CrossedEdges(vx, vy, x[k], y[k])) % 2 = 1
        THEN 1 ELSE 0]

\* C18: in each of the four tools a handler writes the subset's mask only as
\* finalize_selection running to its end, which happens only while the shape
\* is defined, and the mask written is contains on the geometry of before the
\* handler, which the handler then resets.
C18_MaskOnlyWhileDefined ==
    [][IF call'.op = "finalize_selection" /\ call'.done
       THEN /\ Defined
            /\ mask'.tag = "array"
            /\ mask'.vals = ExpectedMask(call'.x, call'.y)
       ELSE mask' = mask]_vars

\* a MplBoxTool has finalized a selection: the mask holds a sample inside and
\* one outside the rectangle, which is reset
C18_Witness ==
    /\ kind = "boxtool"
    /\ call.op = "finalize_selection" /\ call.done
    /\ mask.vals = <<1, 0>>
    /\ ~RectangularROI_defined

\* a MplPolygonTool has finalized a polygon with a sample inside
C18_WitnessPolygon ==
    /\ kind = "polygontool"
    /\ call.op = "finalize_selection" /\ call.done
    /\ mask.vals = <<1>>

\* C19: in MplBoxTool, MplCircleTool and MplLassoTool _active is true iff the
\* shape is defined: both hold from a press inside the axes on, and neither
\* after the release that finalizes the selection.
C19_ActiveIffDefined ==
    kind \in {"boxtool", "circletool", "lassotool"} =>
        /\ _active <=> Defined
        /\ (call.op = "start_selection" /\ call.done) => _active
        /\ (call.op = "finalize_selection" /\ call.done) => ~_active

\* a MplLassoTool has finalized a selection and is inactive and undefined
C19_Witness ==
    /\ kind = "lassotool"
    /\ call.op = "finalize_selection" /\ call.done
    /\ mask.tag = "array"
    /\ ~_active /\ ~PolygonalROI_defined

\* a MplCircleTool is in a gesture: a release outside the axes has left it
\* active and its circle defined
C19_WitnessActive ==
    /\ kind = "circletool"
    /\ call.op = "finalize_selection" /\ ~call.done
    /\ _active /\ CircularROI_defined
    /\ radius > 0

\* C20: the polygon of a MplPolygonTool always has a vertex, and as many as 1
\* plus the presses of button 1 inside the axes since creation or the last
\* finalization; a finalization leaves the single vertex (0, 0).
C20_PolygonToolVertexCount ==
    kind = "polygontool" =>
        /\ PolygonalROI_defined
        /\ Len(vx) = 1 + presses /\ Len(vy) = 1 + presses
        /\ (call.op = "finalize_selection" /\ call.done) => (vx = <<0>> /\ vy = <<0>>)

\* two presses of button 1 and then a motion event: three vertices
C20_Witness ==
    /\ kind = "polygontool"
    /\ call.op = "update_selection" /\ call.done
    /\ presses = 2
    /\ Len(vx) = 3

\* a press of button 3 has finalized the polygon: the placeholder is back
C20_WitnessFinalized ==
    /\ kind = "polygontool"
    /\ call.op = "finalize_selection" /\ call.done
    /\ presses = 0
    /\ vx = <<0>> /\ vy = <<0>>
    /\ mask.tag = "array"

\* C21: in MplBoxTool and MplCircleTool a release inside the axes that follows
\* a press inside the axes with no motion event inside the axes in between
\* writes a mask with one entry per sample, every entry false.
C21_ClickSelectsNothing ==
    [][(/\ kind \in {"boxtool", "circletool"}
        /\ _active /\ ~moved
        /\ call'.op = "finalize_selection" /\ call'.inaxes) =>
           /\ call'.done
           /\ mask'.tag = "array"
           /\ Len(mask'.vals) = Len(call'.x)
           /\ \A k \in 1..Len(call'.x) : mask'.vals[k] = 0]_vars

\* a MplCircleTool has finalized a press and release without motion on a
\* sample at the press point, and has not selected it
C21_Witness ==
    /\ kind = "circletool"
    /\ call.op = "finalize_selection" /\ call.done /\ call.inaxes
    /\ ~moved
    /\ call.x = <<Val(_xi)>> /\ call.y = <<Val(_yi)>>
    /\ mask.vals = <<0>>

\* a MplBoxTool has finalized a press and release without motion on two samples
C21_WitnessBox ==
    /\ kind = "boxtool"
    /\ call.op = "finalize_selection" /\ call.done /\ call.inaxes
    /\ ~moved
    /\ mask.vals = <<0, 0>>
====
